---- MODULE Spec2Model ----
(***************************************************************************)
(* A model of the blogicum blog application (django_sprint4):              *)
(*   - the store: Category, Post and Comment rows (blog/models.py);        *)
(*   - the request handlers of blog/views.py, one action per view;         *)
(*   - the administrator's management of categories (blog/admin.py);       *)
(*   - the pagination helper (core/utils.py) over Django's Paginator.      *)
(*                                                                         *)
(* Every handler answers a request with a response; the last request and   *)
(* its response are part of the state so that properties of the responses  *)
(* are state predicates.                                                   *)
(*                                                                         *)
(* Three specifications share the state:                                   *)
(*   Spec      the write path: every creating, updating and deleting       *)
(*             handler, over posts, comments and categories;               *)
(*   SpecRead  the read path: the listing and detail handlers, over posts  *)
(*             and categories as the write handlers and the clock leave    *)
(*             them (comments do not enter any feed or visibility test);   *)
(*   SpecPage  the pagination helper as a function of its two arguments.   *)
(***************************************************************************)
EXTENDS Integers, Sequences, FiniteSets, TLC

\* ------------------------------------------------------------ bounds
MaxPosts == 2
MaxComments == 2
MaxCategories == 1
MaxTime == 1
MaxItems == 5
MaxRequests == 5
\* blogicum/settings.py sets the page size; the file is not part of src/.
POSTS_ON_PAGE == 2

Users == {"u1", "u2"}
AnonymousUser == "anonymous"
Requesters == Users \cup {AnonymousUser}
\* The usernames a profile URL may carry: the users', and one nobody has.
Usernames == Users \cup {"ghost"}
Slugs == {"s1", "s2"}
Texts == {"a", "b"}
Times == 0..MaxTime

\* A nullable foreign key with no row behind it (null=True).
NULL == 0

VARIABLES
    posts,          \* Post rows: pk -> [author, is_published, category, pub_date]
    comments,       \* Comment rows: pk -> [author, post, text]
    categories,     \* Category rows: pk -> [slug, is_published]
    nextPostId,     \* the next primary key of each table (never reused)
    nextCommentId,
    nextCategoryId,
    now,            \* timezone.now()
    request,        \* the last request
    response,       \* its response
    served,         \* the number of requests answered so far
    postCreator,    \* history: pk -> the user whose request created the Post
    commentCreator  \* history: pk -> the user whose request created the Comment

store == <<posts, comments, categories, nextPostId, nextCommentId, nextCategoryId>>
history == <<postCreator, commentCreator>>
vars == <<posts, comments, categories, nextPostId, nextCommentId, nextCategoryId,
          now, request, response, served, postCreator, commentCreator>>

\* ------------------------------------------------------------ helpers
Range(s) == {s[i] : i \in 1..Len(s)}

Restrict(f, S) == [x \in S |-> f[x]]

Extend(f, k, v) == [x \in DOMAIN f \cup {k} |-> IF x = k THEN v ELSE f[x]]

\* ------------------------------------------------------------ requests
NoPage == [present |-> FALSE, raw |-> <<>>]

PageParam(raw) == [present |-> TRUE, raw |-> raw]

Request(view, user, method, post_id, comment_id, username, slug, page) ==
    [view |-> view, user |-> user, method |-> method, post_id |-> post_id,
     comment_id |-> comment_id, username |-> username, slug |-> slug,
     page |-> page, data |-> <<>>]

NoLocation == [name |-> "", post_id |-> 0, username |-> ""]

Response(status, template, location, object_list, queryset, post) ==
    [status |-> status, template |-> template, location |-> location,
     object_list |-> object_list, queryset |-> queryset, post |-> post]

\* render(request, template, context)
Render(template, object_list, queryset, post) ==
    Response(200, template, NoLocation, object_list, queryset, post)

\* render(request, 'pages/404.html', status=404) and the Http404 of
\* get_object_or_404
NotFound == Response(404, "pages/404.html", NoLocation, <<>>, <<>>, 0)

\* An exception no handler catches: the framework's 500.
ServerError == Response(500, "", NoLocation, <<>>, <<>>, 0)

Redirect(name, post_id, username) ==
    Response(302, "", [name |-> name, post_id |-> post_id, username |-> username],
             <<>>, <<>>, 0)

\* LoginRequiredMixin.handle_no_permission: to the login page
RedirectToLogin == Redirect("login", 0, "")

\* ------------------------------------------------------------ pagination
\* The characters a page parameter is made of here.
Digits == {"0", "1", "2", "3"}
Chars == Digits \cup {"-", "a"}

DigitValue(c) == CASE c = "0" -> 0 [] c = "1" -> 1 [] c = "2" -> 2 [] c = "3" -> 3

RECURSIVE DigitsValue(_)
DigitsValue(s) ==
    IF s = <<>> THEN 0
    ELSE DigitsValue(SubSeq(s, 1, Len(s) - 1)) * 10 + DigitValue(s[Len(s)])

\* int(number) of Paginator.validate_number, on the value request.GET.get('page')
\* gives: None raises TypeError, a string that is no integer literal raises
\* ValueError (both become PageNotAnInteger).
IntOf(page) ==
    LET raw == page.raw
        neg == raw # <<>> /\ raw[1] = "-"
        digits == IF neg THEN Tail(raw) ELSE raw
    IN  IF page.present /\ digits # <<>> /\ Range(digits) \subseteq Digits
        THEN [ok |-> TRUE, value |-> IF neg THEN 0 - DigitsValue(digits)
                                             ELSE DigitsValue(digits)]
        ELSE [ok |-> FALSE, value |-> 0]

CeilDiv(a, b) == (a + b - 1) \div b

\* Paginator.num_pages (orphans = 0, allow_empty_first_page = True)
NumPages(data, per_page) ==
    LET hits == IF Len(data) > 1 THEN Len(data) ELSE 1
    IN  CeilDiv(hits, per_page)

\* A get_page that answers a number below 1 with the first page.
ValidNumberClampFirst(data, per_page, page) ==
    LET n == IntOf(page)
    IN  IF ~n.ok THEN 1
        ELSE IF n.value < 1 THEN 1
        ELSE IF n.value > NumPages(data, per_page) THEN NumPages(data, per_page)
        ELSE n.value

\* Paginator.get_page: validate_number, with PageNotAnInteger answered by page 1
\* and EmptyPage (a number below 1 or above num_pages) by the last page.
ValidNumber(data, per_page, page) ==
    LET n == IntOf(page)
    IN  IF ~n.ok THEN 1
        ELSE IF n.value < 1 THEN NumPages(data, per_page)
        ELSE IF n.value > NumPages(data, per_page) THEN NumPages(data, per_page)
        ELSE n.value

\* Paginator.page: object_list[bottom:top]
PageOf(data, per_page, number) ==
    LET bottom == (number - 1) * per_page
        top == IF bottom + per_page >= Len(data) THEN Len(data)
               ELSE bottom + per_page
    IN  SubSeq(data, bottom + 1, top)

GetPage(data, per_page, page) ==
    PageOf(data, per_page, ValidNumber(data, per_page, page))

\* core/utils.py
page_object(data, page_number) == GetPage(data, POSTS_ON_PAGE, page_number)

\* Every item some page of the paginator shows.
AllPages(data, per_page) ==
    UNION {Range(PageOf(data, per_page, n)) : n \in 1..NumPages(data, per_page)}

\* ------------------------------------------------------------ the store
Init ==
    /\ posts = <<>>
    /\ comments = <<>>
    /\ categories = <<>>
    /\ nextPostId = 1
    /\ nextCommentId = 1
    /\ nextCategoryId = 1
    /\ now = 0
    /\ request = Request("", AnonymousUser, "", 0, 0, "", "", NoPage)
    /\ response = Response(0, "", NoLocation, <<>>, <<>>, 0)
    /\ served = 0
    /\ postCreator = <<>>
    /\ commentCreator = <<>>

\* Answering a request: the request and its response are recorded.
Answer(req, resp) ==
    /\ served < MaxRequests
    /\ served' = served + 1
    /\ request' = req
    /\ response' = resp

\* The sequences order_by('-pub_date') may return for the rows S: the database
\* orders rows of equal pub_date as it likes.
OrderByPubDate(S) ==
    {q \in [1..Cardinality(S) -> S] :
        /\ \A i, j \in 1..Cardinality(S) : i # j => q[i] # q[j]
        /\ \A i, j \in 1..Cardinality(S) :
              i < j => posts[q[i]].pub_date >= posts[q[j]].pub_date}

\* Post.category, on_delete=models.SET_NULL: the posts of a deleted category
SetNullCategory(c) ==
    [p \in DOMAIN posts |->
        IF posts[p].category = c THEN [posts[p] EXCEPT !.category = NULL]
        ELSE posts[p]]

\* A Comment.post that leaves the comments of a deleted post behind.
CascadeCommentsNone(post_id) == comments

\* Comment.post, on_delete=models.CASCADE: the comments left when a post goes
CascadeComments(post_id) ==
    Restrict(comments, {c \in DOMAIN comments : comments[c].post # post_id})

\* ------------------------------------------------------------ forms
\* blog/forms.py is not part of src/. The submitted data of a post form: the
\* publish-gating fields of the model, without the author; the category is
\* required (blank is not set) and is chosen among the existing categories.
\* Data that does not validate is one more value.
PostData ==
    [valid : {TRUE}, is_published : BOOLEAN, category : DOMAIN categories,
     pub_date : Times]
    \cup {[valid |-> FALSE, is_published |-> FALSE, category |-> NULL, pub_date |-> 0]}

PostForm(data) ==
    [is_published |-> data.is_published, category |-> data.category,
     pub_date |-> data.pub_date]

CommentData ==
    [valid : {TRUE}, text : Texts] \cup {[valid |-> FALSE, text |-> ""]}

CommentForm(data) == [text |-> data.text]

Methods == {"GET", "POST"}

\* ------------------------------------------------------------ read handlers
\* A post_list whose filter forgets the publication date.
post_list_filter_no_date(p) ==
    /\ posts[p].category # NULL
    /\ categories[posts[p].category].is_published
    /\ posts[p].is_published

\* post_list: the filter of the queryset
post_list_filter(p) ==
    /\ posts[p].category # NULL
    /\ categories[posts[p].category].is_published
    /\ posts[p].is_published
    /\ posts[p].pub_date <= now

post_list(page) ==
    /\ \E qs \in OrderByPubDate({p \in DOMAIN posts : post_list_filter(p)}) :
          Answer(Request("post_list", AnonymousUser, "GET", 0, 0, "", "", page),
                 Render("blog/index.html", GetPage(qs, POSTS_ON_PAGE, page), qs, 0))
    /\ UNCHANGED <<store, now, history>>

\* A post_detail that applies the visibility test to the author too.
post_detail_not_author_always(post_id, user) == TRUE

\* post_detail: post.author != request.user
post_detail_not_author(post_id, user) == posts[post_id].author # user

\* post_detail: the response. With the post published, Python evaluates
\* post.category.is_published next, and post.category is None for a post whose
\* category was deleted: an AttributeError nothing catches.
post_detail_response(user, post_id) ==
    IF post_id \notin DOMAIN posts THEN NotFound
    ELSE IF ~post_detail_not_author(post_id, user)
        THEN Render("blog/detail.html", <<>>, <<>>, post_id)
    ELSE IF posts[post_id].is_published = FALSE THEN NotFound
    ELSE IF posts[post_id].category = NULL THEN ServerError
    ELSE IF categories[posts[post_id].category].is_published = FALSE THEN NotFound
    ELSE IF posts[post_id].pub_date > now THEN NotFound
    ELSE Render("blog/detail.html", <<>>, <<>>, post_id)

post_detail(user, post_id) ==
    /\ Answer(Request("post_detail", user, "GET", post_id, 0, "", "", NoPage),
              post_detail_response(user, post_id))
    /\ UNCHANGED <<store, now, history>>

\* A profile that shows the owner the filtered feed.
profile_is_owner_never(username, user) == FALSE

\* profile: username == request.user.username (AnonymousUser's is empty)
profile_is_owner(username, user) == user # AnonymousUser /\ username = user

\* profile: the queryset of either branch, over profile.posts
profile_queryset(username, user) ==
    IF profile_is_owner(username, user)
    THEN {p \in DOMAIN posts : posts[p].author = username}
    ELSE {p \in DOMAIN posts :
            /\ posts[p].author = username
            /\ posts[p].is_published
            /\ posts[p].category # NULL
            /\ categories[posts[p].category].is_published
            /\ posts[p].pub_date <= now}

profile(user, username, page) ==
    /\ IF username \notin Users
       THEN Answer(Request("profile", user, "GET", 0, 0, username, "", page), NotFound)
       ELSE \E qs \in OrderByPubDate(profile_queryset(username, user)) :
              Answer(Request("profile", user, "GET", 0, 0, username, "", page),
                     Render("blog/profile.html", GetPage(qs, POSTS_ON_PAGE, page), qs, 0))
    /\ UNCHANGED <<store, now, history>>

\* The category of a slug (the slug is unique), or NULL.
CategoryOfSlug(slug) ==
    IF \E c \in DOMAIN categories : categories[c].slug = slug
    THEN CHOOSE c \in DOMAIN categories : categories[c].slug = slug
    ELSE NULL

\* CategoryDetailView.get_context_data: the filter over category.posts
category_queryset(c) ==
    {p \in DOMAIN posts :
        /\ posts[p].category = c
        /\ posts[p].is_published
        /\ posts[p].pub_date <= now}

\* CategoryDetailView: the responses of dispatch and get_context_data
CategoryDetailView(slug, page) ==
    LET c == CategoryOfSlug(slug)
    IN  IF c = NULL THEN {NotFound}
        ELSE IF categories[c].is_published = FALSE THEN {NotFound}
        ELSE {Render("blog/category.html", GetPage(qs, POSTS_ON_PAGE, page), qs, 0) :
                qs \in OrderByPubDate(category_queryset(c))}

\* The classes and functions blog/views.py defines.
views ==
    {"post_list", "post_detail", "PostCreatView", "PostUpdateView", "PostDeleteView",
     "CommentCreateView", "CommentUpdateView", "CommentDeleteView", "profile",
     "ProfileUpdateView", "CategoryDetailView"}

\* blog/urls.py: the attribute of views the route category_posts names
urlpatterns_category_posts == "CategoryListView"

\* GET /category/<slug>/: the route names views.CategoryListView, an attribute
\* blog/views.py does not define; loading the URLconf raises AttributeError.
category_posts(user, slug, page) ==
    /\ \E resp \in (IF urlpatterns_category_posts \in views
                    THEN CategoryDetailView(slug, page)
                    ELSE {ServerError}) :
          Answer(Request("category_posts", user, "GET", 0, 0, "", slug, page), resp)
    /\ UNCHANGED <<store, now, history>>

\* ------------------------------------------------------------ write handlers
\* PostCreatView.form_valid: the row saved
PostCreatView_form_valid(user, data) ==
    [author |-> user] @@ PostForm(data)

\* PostCreatView: LoginRequiredMixin, then CreateView's get or post
PostCreatView(user, method, data) ==
    LET req == Request("PostCreatView", user, method, 0, 0, "", "", NoPage)
    IN  IF user = AnonymousUser
        THEN Answer(req, RedirectToLogin) /\ UNCHANGED <<store, now, history>>
        ELSE IF method = "GET" \/ ~data.valid
        THEN /\ Answer(req, Render("blog/create.html", <<>>, <<>>, 0))
             /\ UNCHANGED <<store, now, history>>
        ELSE /\ nextPostId <= MaxPosts
             /\ posts' = Extend(posts, nextPostId, PostCreatView_form_valid(user, data))
             /\ postCreator' = Extend(postCreator, nextPostId, user)
             /\ nextPostId' = nextPostId + 1
             /\ Answer(req, Redirect("blog:profile", 0, user))
             /\ UNCHANGED <<comments, categories, nextCommentId, nextCategoryId,
                            now, commentCreator>>

\* PostUpdateView.dispatch: instance.author != self.request.user
PostUpdateView_not_author(post_id, user) == posts[post_id].author # user

\* PostUpdateView: dispatch (the lookup, the ownership guard), then
\* LoginRequiredMixin and UpdateView's get or post
PostUpdateView(user, method, post_id, data) ==
    LET req == Request("PostUpdateView", user, method, post_id, 0, "", "", NoPage)
    IN  IF post_id \notin DOMAIN posts
        THEN Answer(req, NotFound) /\ UNCHANGED <<store, now, history>>
        ELSE IF PostUpdateView_not_author(post_id, user)
        THEN /\ Answer(req, Redirect("blog:post_detail", post_id, ""))
             /\ UNCHANGED <<store, now, history>>
        ELSE IF user = AnonymousUser
        THEN Answer(req, RedirectToLogin) /\ UNCHANGED <<store, now, history>>
        ELSE IF method = "GET" \/ ~data.valid
        THEN /\ Answer(req, Render("blog/create.html", <<>>, <<>>, post_id))
             /\ UNCHANGED <<store, now, history>>
        ELSE /\ posts' = [posts EXCEPT ![post_id] =
                            [author |-> posts[post_id].author] @@ PostForm(data)]
             /\ Answer(req, Redirect("blog:post_detail", post_id, ""))
             /\ UNCHANGED <<comments, categories, nextPostId, nextCommentId,
                            nextCategoryId, now, history>>

\* A PostDeleteView whose guard only asks for a logged-in user.
PostDeleteView_not_author_login_only(post_id, user) == user = AnonymousUser

\* PostDeleteView.dispatch: instance.author != self.request.user
PostDeleteView_not_author(post_id, user) == posts[post_id].author # user

\* PostDeleteView: dispatch, then LoginRequiredMixin and DeleteView's get (the
\* confirmation page) or post (the deletion, with the cascade to the comments)
PostDeleteView(user, method, post_id) ==
    LET req == Request("PostDeleteView", user, method, post_id, 0, "", "", NoPage)
    IN  IF post_id \notin DOMAIN posts
        THEN Answer(req, NotFound) /\ UNCHANGED <<store, now, history>>
        ELSE IF PostDeleteView_not_author(post_id, user)
        THEN /\ Answer(req, Redirect("blog:post_detail", post_id, ""))
             /\ UNCHANGED <<store, now, history>>
        ELSE IF user = AnonymousUser
        THEN Answer(req, RedirectToLogin) /\ UNCHANGED <<store, now, history>>
        ELSE IF method = "GET"
        THEN /\ Answer(req, Render("blog/create.html", <<>>, <<>>, post_id))
             /\ UNCHANGED <<store, now, history>>
        ELSE /\ posts' = Restrict(posts, DOMAIN posts \ {post_id})
             /\ comments' = CascadeComments(post_id)
             /\ Answer(req, Redirect("blog:profile", 0, user))
             /\ UNCHANGED <<categories, nextPostId, nextCommentId, nextCategoryId,
                            now, history>>

\* A CommentCreateView.form_valid that stamps the post's author on the comment.
CommentCreateView_form_valid_post_author(user, post_id, data) ==
    [author |-> posts[post_id].author, post |-> post_id] @@ CommentForm(data)

\* CommentCreateView.form_valid: the row saved once the post is found
CommentCreateView_form_valid(user, post_id, data) ==
    [author |-> user, post |-> post_id] @@ CommentForm(data)

\* CommentCreateView: LoginRequiredMixin, then CreateView's get or post;
\* form_valid looks the post up before the save
CommentCreateView(user, method, post_id, data) ==
    LET req == Request("CommentCreateView", user, method, post_id, 0, "", "", NoPage)
    IN  IF user = AnonymousUser
        THEN Answer(req, RedirectToLogin) /\ UNCHANGED <<store, now, history>>
        ELSE IF method = "GET" \/ ~data.valid
        THEN /\ Answer(req, Render("blog/detail.html", <<>>, <<>>, 0))
             /\ UNCHANGED <<store, now, history>>
        ELSE IF post_id \notin DOMAIN posts
        THEN Answer(req, NotFound) /\ UNCHANGED <<store, now, history>>
        ELSE /\ nextCommentId <= MaxComments
             /\ comments' = Extend(comments, nextCommentId,
                                   CommentCreateView_form_valid(user, post_id, data))
             /\ commentCreator' = Extend(commentCreator, nextCommentId, user)
             /\ nextCommentId' = nextCommentId + 1
             /\ Answer(req, Redirect("blog:post_detail", post_id, ""))
             /\ UNCHANGED <<posts, categories, nextPostId, nextCategoryId, now,
                            postCreator>>

\* CommentUpdateView.dispatch: instance.author != self.request.user
CommentUpdateView_not_author(comment_id, user) == comments[comment_id].author # user

\* CommentUpdateView: dispatch (the comment is looked up by comment_id alone; the
\* redirect goes to the post_id of the URL), then UpdateView's get or post
CommentUpdateView(user, method, post_id, comment_id, data) ==
    LET req == Request("CommentUpdateView", user, method, post_id, comment_id, "", "",
                       NoPage)
    IN  IF comment_id \notin DOMAIN comments
        THEN Answer(req, NotFound) /\ UNCHANGED <<store, now, history>>
        ELSE IF CommentUpdateView_not_author(comment_id, user)
        THEN /\ Answer(req, Redirect("blog:post_detail", post_id, ""))
             /\ UNCHANGED <<store, now, history>>
        ELSE IF user = AnonymousUser
        THEN Answer(req, RedirectToLogin) /\ UNCHANGED <<store, now, history>>
        ELSE IF method = "GET" \/ ~data.valid
        THEN /\ Answer(req, Render("blog/comment.html", <<>>, <<>>, 0))
             /\ UNCHANGED <<store, now, history>>
        ELSE /\ comments' = [comments EXCEPT ![comment_id] =
                                [author |-> comments[comment_id].author,
                                 post |-> comments[comment_id].post]
                                @@ CommentForm(data)]
             /\ Answer(req, Redirect("blog:post_detail", post_id, ""))
             /\ UNCHANGED <<posts, categories, nextPostId, nextCommentId,
                            nextCategoryId, now, history>>

\* CommentDeleteView.dispatch: instance.author != self.request.user
CommentDeleteView_not_author(comment_id, user) == comments[comment_id].author # user

\* CommentDeleteView: dispatch, then DeleteView's get or post
CommentDeleteView(user, method, post_id, comment_id) ==
    LET req == Request("CommentDeleteView", user, method, post_id, comment_id, "", "",
                       NoPage)
    IN  IF comment_id \notin DOMAIN comments
        THEN Answer(req, NotFound) /\ UNCHANGED <<store, now, history>>
        ELSE IF CommentDeleteView_not_author(comment_id, user)
        THEN /\ Answer(req, Redirect("blog:post_detail", post_id, ""))
             /\ UNCHANGED <<store, now, history>>
        ELSE IF user = AnonymousUser
        THEN Answer(req, RedirectToLogin) /\ UNCHANGED <<store, now, history>>
        ELSE IF method = "GET"
        THEN /\ Answer(req, Render("blog/comment.html", <<>>, <<>>, 0))
             /\ UNCHANGED <<store, now, history>>
        ELSE /\ comments' = Restrict(comments, DOMAIN comments \ {comment_id})
             /\ Answer(req, Redirect("blog:post_detail", post_id, ""))
             /\ UNCHANGED <<posts, categories, nextPostId, nextCommentId,
                            nextCategoryId, now, history>>

\* ------------------------------------------------------------ the administrator
\* admin.site.register(Category): a category is added, with a slug no other has
AdminAddCategory(slug, is_published) ==
    /\ nextCategoryId <= MaxCategories
    /\ CategoryOfSlug(slug) = NULL
    /\ categories' = Extend(categories, nextCategoryId,
                            [slug |-> slug, is_published |-> is_published])
    /\ nextCategoryId' = nextCategoryId + 1
    /\ Answer(Request("admin:category_add", "admin", "POST", 0, 0, "", slug, NoPage),
              Redirect("admin:category_changelist", 0, ""))
    /\ UNCHANGED <<posts, comments, nextPostId, nextCommentId, now, history>>

\* ... its publication flag is changed
AdminChangeCategory(c, is_published) ==
    /\ c \in DOMAIN categories
    /\ categories' = [categories EXCEPT ![c].is_published = is_published]
    /\ Answer(Request("admin:category_change", "admin", "POST", 0, 0, "",
                      categories[c].slug, NoPage),
              Redirect("admin:category_changelist", 0, ""))
    /\ UNCHANGED <<posts, comments, nextPostId, nextCommentId, nextCategoryId, now,
                   history>>

\* ... it is deleted: its posts stay, with no category
AdminDeleteCategory(c) ==
    /\ c \in DOMAIN categories
    /\ categories' = Restrict(categories, DOMAIN categories \ {c})
    /\ posts' = SetNullCategory(c)
    /\ Answer(Request("admin:category_delete", "admin", "POST", 0, 0, "",
                      categories[c].slug, NoPage),
              Redirect("admin:category_changelist", 0, ""))
    /\ UNCHANGED <<comments, nextPostId, nextCommentId, nextCategoryId, now, history>>

\* ------------------------------------------------------------ the clock
\* Time passes; no request is being answered.
Tick ==
    /\ now < MaxTime
    /\ now' = now + 1
    /\ request' = Request("", AnonymousUser, "", 0, 0, "", "", NoPage)
    /\ response' = Response(0, "", NoLocation, <<>>, <<>>, 0)
    /\ UNCHANGED <<store, served, history>>

\* ------------------------------------------------------------ specifications
PostIds == 1..MaxPosts
CommentIds == 1..MaxComments

PostWrites ==
    \/ \E u \in Requesters, m \in Methods, d \in PostData : PostCreatView(u, m, d)
    \/ \E u \in Requesters, m \in Methods, p \in PostIds, d \in PostData :
          PostUpdateView(u, m, p, d)
    \/ \E u \in Requesters, m \in Methods, p \in PostIds : PostDeleteView(u, m, p)

CommentWrites ==
    \/ \E u \in Requesters, m \in Methods, p \in PostIds, d \in CommentData :
          CommentCreateView(u, m, p, d)
    \/ \E u \in Requesters, m \in Methods, p \in PostIds, c \in CommentIds,
          d \in CommentData : CommentUpdateView(u, m, p, c, d)
    \/ \E u \in Requesters, m \in Methods, p \in PostIds, c \in CommentIds :
          CommentDeleteView(u, m, p, c)

AdminWrites ==
    \/ \E s \in Slugs, b \in BOOLEAN : AdminAddCategory(s, b)
    \/ \E c \in 1..MaxCategories, b \in BOOLEAN : AdminChangeCategory(c, b)
    \/ \E c \in 1..MaxCategories : AdminDeleteCategory(c)

\* The page parameters of the feed requests.
FeedPages == {NoPage, PageParam(<<"2">>)}

Reads ==
    \/ \E pg \in FeedPages : post_list(pg)
    \/ \E u \in Requesters, p \in PostIds : post_detail(u, p)
    \/ \E u \in Requesters, n \in Usernames, pg \in FeedPages : profile(u, n, pg)
    \/ \E u \in Requesters, s \in Slugs, pg \in FeedPages : category_posts(u, s, pg)

\* The write path: every handler that changes the store.
Next == PostWrites \/ CommentWrites \/ AdminWrites

Spec == Init /\ [][Next]_vars

\* The read path: the listing and detail handlers, over the posts and the
\* categories as the write handlers and the clock leave them. No feed and no
\* visibility test reads a comment.
NextRead == PostWrites \/ AdminWrites \/ Tick \/ Reads

SpecRead == Init /\ [][NextRead]_vars

\* The pagination helper on a sequence of n items and a page parameter.
PageStrings == {<<>>} \cup {<<a>> : a \in Chars} \cup {<<a, b>> : a, b \in Chars}

PageParams == {NoPage} \cup {PageParam(raw) : raw \in PageStrings}

PageObject(n, page) ==
    /\ Answer([Request("page_object", AnonymousUser, "GET", 0, 0, "", "", page)
                  EXCEPT !.data = [i \in 1..n |-> i]],
              Render("", page_object([i \in 1..n |-> i], page), [i \in 1..n |-> i], 0))
    /\ UNCHANGED <<store, now, history>>

NextPage == \E n \in 0..MaxItems, page \in PageParams : PageObject(n, page)

SpecPage == Init /\ [][NextPage]_vars


\* ------------------------------------------------------------ the visibility predicate
\* is_published, a published category, and a publication date that has come.
\* A post with no category has no published category.
Published(p) ==
    /\ posts[p].is_published
    /\ posts[p].category # NULL
    /\ categories[posts[p].category].is_published
    /\ posts[p].pub_date <= now

\* The posts the pages of the answered feed show, all pages together.
FeedPosts == AllPages(response.queryset, POSTS_ON_PAGE)

\* ------------------------------------------------------------ claims
\* C1: the home feed, over all its pages, holds a post if and only if the post
\* is published, its category is published and its publication date is not
\* after the time of the request.
C1_HomeFeed ==
    request.view = "post_list" =>
        /\ response.status = 200
        /\ FeedPosts \subseteq DOMAIN posts
        /\ \A p \in DOMAIN posts : p \in FeedPosts <=> Published(p)

\* A home feed requested with one post in it and one post kept out of it.
C1_Witness ==
    /\ request.view = "post_list"
    /\ \E p, q \in DOMAIN posts : p \in FeedPosts /\ q \notin FeedPosts

\* A post the claim C2 calls not visible: unpublished, or in an unpublished
\* category, or dated in the future.
C2_NotVisible(p) ==
    \/ posts[p].is_published = FALSE
    \/ posts[p].category # NULL /\ categories[posts[p].category].is_published = FALSE
    \/ posts[p].pub_date > now

\* C2: post_detail answers a viewer who is not the author of a post that is not
\* visible with the not-found response, and with nothing else, also when the
\* post has no category.
C2_HiddenIsNotFound ==
    (/\ request.view = "post_detail"
     /\ request.post_id \in DOMAIN posts
     /\ posts[request.post_id].author # request.user
     /\ C2_NotVisible(request.post_id))
    => response = NotFound

\* A post with no category that is published and whose date has come.
C3_NoCategoryPublished(p) ==
    /\ posts[p].category = NULL
    /\ posts[p].is_published
    /\ posts[p].pub_date <= now

\* C3: a published post with no category whose date has come is shown to a
\* viewer who is not its author: in the home feed, in the profile feed of its
\* author, and by post_detail.
C3_NoCategoryIsVisible ==
    /\ request.view = "post_list" =>
          \A p \in DOMAIN posts : C3_NoCategoryPublished(p) => p \in FeedPosts
    /\ (request.view = "profile" /\ request.username \in Users
        /\ request.user # request.username) =>
          \A p \in DOMAIN posts :
              (posts[p].author = request.username /\ C3_NoCategoryPublished(p))
              => p \in FeedPosts
    /\ (/\ request.view = "post_detail"
        /\ request.post_id \in DOMAIN posts
        /\ posts[request.post_id].author # request.user
        /\ C3_NoCategoryPublished(request.post_id))
       => (response.status = 200 /\ response.post = request.post_id)

\* C4: post_detail renders the page of a post for the post's author, whatever
\* the post's publication flag, category and date.
C4_AuthorSeesOwnPost ==
    (/\ request.view = "post_detail"
     /\ request.post_id \in DOMAIN posts
     /\ posts[request.post_id].author = request.user)
    => response = Render("blog/detail.html", <<>>, <<>>, request.post_id)

\* The author has asked for a post of theirs that no other viewer is shown.
C4_Witness ==
    /\ request.view = "post_detail"
    /\ request.post_id \in DOMAIN posts
    /\ posts[request.post_id].author = request.user
    /\ ~Published(request.post_id)
    /\ response.status = 200

\* C7: the profile feed of a user, over all its pages, holds every post of the
\* user when the user asks, the published posts of the user when anyone else
\* asks, and never a post of another author.
C7_ProfileFeed ==
    (request.view = "profile" /\ request.username \in Users) =>
        /\ response.status = 200
        /\ FeedPosts \subseteq {p \in DOMAIN posts : posts[p].author = request.username}
        /\ \A p \in DOMAIN posts :
              posts[p].author = request.username =>
                  (p \in FeedPosts <=> (request.user = request.username \/ Published(p)))

\* The owner has asked for their feed and it shows a post nobody else is shown.
C7_Witness ==
    /\ request.view = "profile"
    /\ request.user = request.username
    /\ \E p \in FeedPosts : ~Published(p)

\* C8: a category feed request is answered not-found when no category has the
\* slug or the category is unpublished, and otherwise with the published posts
\* of the category whose date has come, for every viewer.
C8_CategoryFeed ==
    request.view = "category_posts" =>
        LET c == CategoryOfSlug(request.slug)
        IN  IF c = NULL \/ categories[c].is_published = FALSE
            THEN response.status = 404
            ELSE /\ response.status = 200
                 /\ FeedPosts = {p \in DOMAIN posts :
                                    /\ posts[p].category = c
                                    /\ posts[p].is_published
                                    /\ posts[p].pub_date <= now}

\* ------------------------------------------------------------ the write path
\* The step answered an edit or delete request on an existing post (comment)
\* whose author the requester is not.
DeniedPostRequest ==
    /\ request'.view \in {"PostUpdateView", "PostDeleteView"}
    /\ request'.post_id \in DOMAIN posts
    /\ posts[request'.post_id].author # request'.user

DeniedCommentRequest ==
    /\ request'.view \in {"CommentUpdateView", "CommentDeleteView"}
    /\ request'.comment_id \in DOMAIN comments
    /\ comments[request'.comment_id].author # request'.user

\* A denied request is answered with a redirect to the post detail view and
\* changes no row.
DeniedChangesNothing ==
    (DeniedPostRequest \/ DeniedCommentRequest) =>
        /\ response' = Redirect("blog:post_detail", request'.post_id, "")
        /\ UNCHANGED store

EditDeleteViews ==
    {"PostUpdateView", "PostDeleteView", "CommentUpdateView", "CommentDeleteView"}

PostTouched(p) == p \notin DOMAIN posts' \/ posts'[p] # posts[p]

CommentTouched(c) == c \notin DOMAIN comments' \/ comments'[c] # comments[c]

\* The step of an edit or delete handler changes or deletes a post only at the
\* request of the post's author.
PostsTouchedByAuthor ==
    request'.view \in EditDeleteViews =>
        \A p \in DOMAIN posts : PostTouched(p) => request'.user = posts[p].author

\* ... and a comment only at the request of the comment's author.
CommentsTouchedByAuthor ==
    request'.view \in EditDeleteViews =>
        \A c \in DOMAIN comments :
            CommentTouched(c) => request'.user = comments[c].author

\* ... or, for a comment, because the author of its post deleted the post.
CommentsTouchedByAuthorOrCascade ==
    request'.view \in EditDeleteViews =>
        \A c \in DOMAIN comments :
            CommentTouched(c) =>
                \/ request'.user = comments[c].author
                \/ /\ request'.view = "PostDeleteView"
                   /\ request'.post_id = comments[c].post
                   /\ request'.user = posts[comments[c].post].author
                   /\ c \notin DOMAIN comments'

\* C5 as stated: an edit or delete request on a post or comment by anyone but
\* its author is answered with a redirect to the post detail view and changes
\* nothing in the store; so the edit and delete handlers change or delete a
\* post or a comment only at the request of its own author.
C5_OnlyAuthorEverTouches ==
    [][DeniedChangesNothing /\ PostsTouchedByAuthor /\ CommentsTouchedByAuthor]_vars

\* C5 as amended: ... only at the request of its own author, or, for a comment,
\* when the author of its post deletes the post (the cascade removes it).
C5_DeniedChangesNothing ==
    [][DeniedChangesNothing /\ PostsTouchedByAuthor
       /\ CommentsTouchedByAuthorOrCascade]_vars

\* A user other than the author has asked to delete a post or a comment that
\* exists, and has been sent to the post's detail page.
C5_Witness ==
    /\ request.view \in {"PostDeleteView", "CommentDeleteView"}
    /\ request.method = "POST"
    /\ request.user \in Users
    /\ \/ /\ request.view = "PostDeleteView"
          /\ request.post_id \in DOMAIN posts
          /\ posts[request.post_id].author # request.user
       \/ /\ request.view = "CommentDeleteView"
          /\ request.comment_id \in DOMAIN comments
          /\ comments[request.comment_id].author # request.user
    /\ response = Redirect("blog:post_detail", request.post_id, "")

\* Every comment is a comment of an existing post, and every post has no
\* category or an existing one.
ReferencesExist ==
    /\ \A c \in DOMAIN comments : comments[c].post \in DOMAIN posts
    /\ \A p \in DOMAIN posts :
          posts[p].category = NULL \/ posts[p].category \in DOMAIN categories

\* A step that deletes posts deletes their comments and no other comment.
PostDeletionCascades ==
    LET gone == DOMAIN posts \ DOMAIN posts'
    IN  gone # {} =>
            /\ DOMAIN comments' = {c \in DOMAIN comments : comments[c].post \notin gone}
            /\ \A c \in DOMAIN comments' : comments'[c] = comments[c]

\* A step that deletes categories deletes no post and empties the category of
\* the posts of those categories, and of no other post.
CategoryDeletionSetsNull ==
    LET gone == DOMAIN categories \ DOMAIN categories'
    IN  gone # {} =>
            /\ DOMAIN posts' = DOMAIN posts
            /\ \A p \in DOMAIN posts :
                  posts'[p] = IF posts[p].category \in gone
                              THEN [posts[p] EXCEPT !.category = NULL]
                              ELSE posts[p]

OneRowAdded(old, new) ==
    /\ Cardinality(DOMAIN new \ DOMAIN old) = 1
    /\ DOMAIN old \subseteq DOMAIN new
    /\ \A k \in DOMAIN old : new[k] = old[k]

NewRow(old, new) == new[CHOOSE k \in DOMAIN new : k \notin DOMAIN old]

\* A create request of an anonymous requester creates nothing; one of a user
\* creates nothing or one row whose author is the user and, for a comment,
\* whose post is the existing post of the URL.
CreateStampsRequester ==
    /\ (request'.view \in {"PostCreatView", "CommentCreateView"}
        /\ request'.user = AnonymousUser) => UNCHANGED store
    /\ (request'.view = "PostCreatView" /\ request'.user # AnonymousUser) =>
          \/ UNCHANGED store
          \/ /\ OneRowAdded(posts, posts')
             /\ NewRow(posts, posts').author = request'.user
             /\ UNCHANGED <<comments, categories>>
    /\ (request'.view = "CommentCreateView" /\ request'.user # AnonymousUser) =>
          \/ UNCHANGED store
          \/ /\ OneRowAdded(comments, comments')
             /\ NewRow(comments, comments').author = request'.user
             /\ NewRow(comments, comments').post = request'.post_id
             /\ request'.post_id \in DOMAIN posts
             /\ UNCHANGED <<posts, categories>>

\* A valid comment submitted by a user for a post that does not exist is
\* answered not-found and creates nothing.
CommentOnMissingPost ==
    \A u \in Users, p \in PostIds, d \in CommentData :
        (d.valid /\ p \notin DOMAIN posts /\ CommentCreateView(u, "POST", p, d)) =>
            (response' = NotFound /\ UNCHANGED store)

\* The author of every post and comment is the user whose request created it.
AuthorIsCreator ==
    /\ \A p \in DOMAIN posts : posts[p].author = postCreator[p]
    /\ \A c \in DOMAIN comments : comments[c].author = commentCreator[c]

\* C10: an anonymous create request creates no post and no comment; a
\* successful create request of a user creates exactly one row whose author is
\* that user, a comment's post being the existing post of the URL (not-found and
\* nothing created when there is none); so every post and comment has as author
\* the user whose request created it.
C10_CreatorIsAuthor ==
    /\ []AuthorIsCreator
    /\ [][CreateStampsRequester /\ CommentOnMissingPost]_vars

\* A user has just commented on the post of another user.
C10_Witness ==
    /\ request.view = "CommentCreateView"
    /\ response = Redirect("blog:post_detail", request.post_id, "")
    /\ \E c \in DOMAIN comments :
          /\ c = nextCommentId - 1
          /\ comments[c].author = request.user
          /\ comments[c].post = request.post_id
          /\ posts[request.post_id].author # request.user

\* ------------------------------------------------------------ pagination
\* The last page of n items by k: the least L >= 1 with L * k >= n.
LastPage(n, k) == CHOOSE L \in 1..(n + 1) : L * k >= n /\ (L = 1 \/ (L - 1) * k < n)

\* The items at positions (N - 1) * k .. min(N * k, n) - 1, counted from 0.
Window(data, k, N) ==
    LET n == Len(data)
        last == IF N * k < n THEN N * k ELSE n
    IN  [i \in 1..(last - (N - 1) * k) |-> data[(N - 1) * k + i]]

\* The page the helper is asked for, by the claim C9: page N for N in 1..L,
\* page L for N > L, page 1 for N < 1 and for no integer.
C9_PageClaimed(data, k, page) ==
    LET L == LastPage(Len(data), k)
        N == IntOf(page)
    IN  IF ~N.ok THEN 1
        ELSE IF N.value > L THEN L
        ELSE IF N.value < 1 THEN 1
        ELSE N.value

\* ... and as amended: page L for N < 1.
C9_PageAmended(data, k, page) ==
    LET L == LastPage(Len(data), k)
        N == IntOf(page)
    IN  IF ~N.ok THEN 1
        ELSE IF N.value > L THEN L
        ELSE IF N.value < 1 THEN L
        ELSE N.value

\* C9 as stated: the pagination helper never errors and returns the window of
\* page N for 1 <= N <= L, of page L for N > L, and of page 1 for N below 1 and
\* for a missing or non-integer page parameter.
C9_ClampsToNearest ==
    request.view = "page_object" =>
        /\ response.status = 200
        /\ response.object_list =
              Window(request.data, POSTS_ON_PAGE,
                     C9_PageClaimed(request.data, POSTS_ON_PAGE, request.page))

\* C9 as amended: ... and of the last page L for N below 1 (0 or negative).
C9_ClampsToLast ==
    request.view = "page_object" =>
        /\ response.status = 200
        /\ response.object_list =
              Window(request.data, POSTS_ON_PAGE,
                     C9_PageAmended(request.data, POSTS_ON_PAGE, request.page))

\* The helper was asked for a page below 1 of a sequence of several pages, and
\* returned the last page.
C9_Witness ==
    /\ request.view = "page_object"
    /\ IntOf(request.page).ok
    /\ IntOf(request.page).value < 1
    /\ LastPage(Len(request.data), POSTS_ON_PAGE) > 1
    /\ response.object_list =
          Window(request.data, POSTS_ON_PAGE, LastPage(Len(request.data), POSTS_ON_PAGE))

====
